---------------------------- MODULE Spec2Model ----------------------------
(***************************************************************************)
(* Model of pysofe.meshes.reference_map.ReferenceMap.                      *)
(*                                                                         *)
(* Arrays are nested sequences in numpy's axis order (axis 0 outermost).   *)
(* Floating point numbers are modelled by exact fractions <<n, d>> with    *)
(* d > 0 in lowest terms, extended by the IEEE special values              *)
(* <<1, 0>> (+inf), <<-1, 0>> (-inf) and <<0, 0>> (nan); rounding is not   *)
(* modelled.  A principal square root that is not rational is kept as      *)
(* <<n, d, 2>>, the non-negative root of n/d.                              *)
(***************************************************************************)
EXTENDS Integers, Sequences, FiniteSets, TLC

VARIABLES mesh, call, ret

vars == <<mesh, call, ret>>

(***************************************************************************)
(* Bounds of the model.                                                    *)
(***************************************************************************)
\* node coordinates of the 1-D and 2-D meshes range over 0..MaxCoord
MaxCoord == 2
\* local points lie on the grid k/Den of the reference domain
Den == 4

(***************************************************************************)
(* Floating point arithmetic (exact fractions plus inf and nan).           *)
(***************************************************************************)
Abs(x) == IF x < 0 THEN -x ELSE x

Sign(x) == IF x < 0 THEN -1 ELSE IF x = 0 THEN 0 ELSE 1

RECURSIVE GCD(_, _)
GCD(a, b) == IF b = 0 THEN a ELSE GCD(b, a % b)

\* the fraction n/d in lowest terms; n/0 is inf, -inf or nan as in IEEE division
Q(n, d) ==
    IF d = 0 THEN <<Sign(n), 0>>
    ELSE LET g == GCD(Abs(n), Abs(d))
         IN  <<(Sign(d) * n) \div g, Abs(d) \div g>>

R(c) == <<c, 1>>

Zero == R(0)

One == R(1)

Inf == <<1, 0>>

NaN == <<0, 0>>

IsFinite(x) == x[2] # 0

IsNaN(x) == x = NaN

FAdd(x, y) ==
    IF IsFinite(x) /\ IsFinite(y) THEN Q(x[1] * y[2] + y[1] * x[2], x[2] * y[2])
    ELSE IF IsNaN(x) \/ IsNaN(y) THEN NaN
    ELSE IF IsFinite(x) THEN y
    ELSE IF IsFinite(y) THEN x
    ELSE IF x = y THEN x ELSE NaN

FNeg(x) == <<-x[1], x[2]>>

FSub(x, y) == FAdd(x, FNeg(y))

\* inf * 0 is nan, inf * x carries the sign
FMul(x, y) == Q(x[1] * y[1], x[2] * y[2])

\* x / y; a finite non-zero x over 0 is +-inf, 0/0 is nan (numpy warns, it does not raise)
FDiv(x, y) ==
    IF IsFinite(y) THEN Q(x[1] * y[2], x[2] * y[1])
    ELSE IF IsFinite(x) THEN (IF IsNaN(y) THEN NaN ELSE Zero)
    ELSE NaN

FLess(x, y) == x[1] * y[2] < y[1] * x[2]

\* sum of f[1..n], left to right
RECURSIVE FSum(_, _)
FSum(f, n) == IF n = 0 THEN Zero ELSE FAdd(FSum(f, n - 1), f[n])

\* np.power(x, 2)
Power2(x) == FMul(x, x)

\* np.sqrt of a finite non-negative fraction
Sqrt(x) ==
    LET n == x[1]
        d == x[2]
    IN  IF \E a \in 0..n, b \in 1..d : a * a = n /\ b * b = d
        THEN LET a == CHOOSE a \in 0..n : a * a = n
                 b == CHOOSE b \in 1..d : b * b = d
             IN  <<a, b>>
        ELSE <<n, d, 2>>

(***************************************************************************)
(* numpy indexing.                                                         *)
(***************************************************************************)
\* a 0-based index is valid when it lies in -len..len-1 (negative ones wrap)
InRange0(arr, i) == -Len(arr) <= i /\ i < Len(arr)

\* arr.take(i, axis=0) for one 0-based index i
Take0(arr, i) == IF i >= 0 THEN arr[i + 1] ELSE arr[Len(arr) + i + 1]

\* number of entries of a 2-D array given as a sequence of rows
Size(points) == IF Len(points) = 0 THEN 0 ELSE Len(points) * Len(points[1])

\* the transpose of a dim x nP array
Transpose(a) ==
    IF Len(a) = 0 THEN <<>>
    ELSE [p \in 1..Len(a[1]) |-> [i \in 1..Len(a) |-> a[i][p]]]

\* a compress that hands the selected rows back last one first
RECURSIVE Compress_Reversed(_, _, _)
Compress_Reversed(cond, s, n) ==
    IF n = 0 THEN <<>>
    ELSE IF n <= Len(cond) /\ cond[n]
         THEN <<s[n]>> \o Compress_Reversed(cond, s, n - 1)
         ELSE Compress_Reversed(cond, s, n - 1)

\* the subsequence of s at the positions where cond holds, in order (ndarray.compress)
RECURSIVE Compress(_, _, _)
Compress(cond, s, n) ==
    IF n = 0 THEN <<>>
    ELSE IF n <= Len(cond) /\ cond[n]
         THEN Append(Compress(cond, s, n - 1), s[n])
         ELSE Compress(cond, s, n - 1)

\* a take that sorts the indices first (for at most two of them)
TakeRows_Sorted(arr, idx) ==
    IF Len(idx) = 2 /\ idx[1] > idx[2]
    THEN <<Take0(arr, idx[2]), Take0(arr, idx[1])>>
    ELSE [k \in 1..Len(idx) |-> Take0(arr, idx[k])]

\* arr.take(idx, axis=0) for a 1-D index array
TakeRows(arr, idx) == [k \in 1..Len(idx) |-> Take0(arr, idx[k])]

(***************************************************************************)
(* Results of a call: an array or a raised exception.                      *)
(***************************************************************************)
\* base is "nodes" when the array is a view of mesh.nodes, "fresh" otherwise
Array(val, shape, base) == [kind |-> "array", val |-> val, shape |-> shape, base |-> base]

Raise(err) == [kind |-> "raise", err |-> err]

NoMask == [dtype |-> "none"]

(***************************************************************************)
(* The collaborators: Mesh and the linear shape element P1.                *)
(***************************************************************************)
\* mesh.topology.get_entities(d): the vertex tuples (1-based) of the d-dimensional entities
get_entities(m, d) == m.topology[d]

\* P1.eval_basis(points, deriv): the dim+1 barycentric basis functions of the
\* reference simplex (deriv 0), their constant gradients (deriv 1), zero (deriv 2)
eval_basis(points, deriv) ==
    LET dim == Len(points)
        nP == Len(points[1])
    IN  IF deriv = 0
        THEN [b \in 1..(dim + 1) |-> [p \in 1..nP |->
                IF b = 1 THEN FSub(One, FSum([i \in 1..dim |-> points[i][p]], dim))
                ELSE points[b - 1][p]]]
        ELSE IF deriv = 1
        THEN [b \in 1..(dim + 1) |-> [p \in 1..nP |-> [j \in 1..dim |->
                IF b = 1 THEN R(-1) ELSE IF b - 1 = j THEN One ELSE Zero]]]
        ELSE [b \in 1..(dim + 1) |-> [p \in 1..nP |-> [j \in 1..dim |->
                [k \in 1..dim |-> Zero]]]]

(***************************************************************************)
(* ReferenceMap.eval                                                       *)
(***************************************************************************)
\* self._mesh.nodes[:,None,:]
NodesView(m) == [n \in 1..Len(m.nodes) |-> <<[i \in 1..m.dimension |-> R(m.nodes[n][i])]>>]

\* a gather that takes the offset off twice
GatherCoords_OffByOne(m, vertices) ==
    [e \in 1..Len(vertices) |-> [b \in 1..Len(vertices[e]) |->
        LET node == Take0(m.nodes, vertices[e][b] - 2)
        IN  [i \in 1..Len(node) |-> R(node[i])]]]

\* self._mesh.nodes.take(vertices - 1, axis=0)
GatherCoords(m, vertices) ==
    [e \in 1..Len(vertices) |-> [b \in 1..Len(vertices[e]) |->
        LET node == Take0(m.nodes, vertices[e][b] - 1)
        IN  [i \in 1..Len(node) |-> R(node[i])]]]

\* (coords[...] * basis[...]).sum(axis=1) for the three derivative orders
Contract(coords, basis, deriv, nP, nD, dim) ==
    LET nB == Len(basis)
    IN  IF deriv = 0
        THEN [e \in 1..Len(coords) |-> [p \in 1..nP |-> [i \in 1..nD |->
                FSum([b \in 1..nB |-> FMul(coords[e][b][i], basis[b][p])], nB)]]]
        ELSE IF deriv = 1
        THEN [e \in 1..Len(coords) |-> [p \in 1..nP |-> [i \in 1..nD |-> [j \in 1..dim |->
                FSum([b \in 1..nB |-> FMul(coords[e][b][i], basis[b][p][j])], nB)]]]]
        ELSE [e \in 1..Len(coords) |-> [p \in 1..nP |-> [i \in 1..nD |-> [j \in 1..dim |->
                [k \in 1..dim |->
                FSum([b \in 1..nB |-> FMul(coords[e][b][i], basis[b][p][j][k])], nB)]]]]]

eval(m, points, deriv, mask) ==
    IF Size(points) = 0
    THEN Array(NodesView(m), <<Len(m.nodes), 1, m.dimension>>, "nodes")
    ELSE LET dim == Len(points)
             nP == Len(points[1])
             basis == eval_basis(points, deriv)
             vertices == get_entities(m, dim)
             coords == GatherCoords(m, vertices)
             maps(c) == Array(Contract(c, basis, deriv, nP, m.dimension, dim),
                              <<Len(c), nP, m.dimension>> \o [k \in 1..deriv |-> dim],
                              "fresh")
         IN  IF mask.dtype = "none" THEN maps(coords)
             ELSE IF mask.dtype = "int"
             THEN IF \A k \in 1..Len(mask.v) : InRange0(coords, mask.v[k])
                  THEN maps(TakeRows(coords, mask.v))
                  ELSE Raise("IndexError")
             ELSE IF mask.dtype = "bool"
             THEN maps(Compress(mask.v, coords, Len(coords)))
             ELSE Raise("TypeError")

(***************************************************************************)
(* Small dense linear algebra (numpy.linalg on n x n blocks, n <= 3).      *)
(***************************************************************************)
\* M without row r and column c
Minor(M, r, c) ==
    LET n == Len(M)
    IN  [i \in 1..(n - 1) |-> [j \in 1..(n - 1) |->
            M[IF i < r THEN i ELSE i + 1][IF j < c THEN j ELSE j + 1]]]

\* an expansion that forgets the alternating signs
RECURSIVE Det_NoSigns(_)
Det_NoSigns(M) ==
    LET n == Len(M)
    IN  IF n = 1 THEN M[1][1]
        ELSE FSum([j \in 1..n |-> FMul(M[1][j], Det_NoSigns(Minor(M, 1, j)))], n)

\* np.linalg.det of one square block, by expansion along the first row
RECURSIVE Det(_)
Det(M) ==
    LET n == Len(M)
    IN  IF n = 1 THEN M[1][1]
        ELSE FSum([j \in 1..n |->
                     FMul(FMul(R(IF j % 2 = 1 THEN 1 ELSE -1), M[1][j]),
                          Det(Minor(M, 1, j)))], n)

\* np.linalg.inv of one non-singular square block: adjugate over determinant
Inv(M) ==
    LET n == Len(M)
        det == Det(M)
    IN  IF n = 1 THEN <<<<FDiv(One, det)>>>>
        ELSE [i \in 1..n |-> [j \in 1..n |->
                FDiv(FMul(R(IF (i + j) % 2 = 0 THEN 1 ELSE -1), Det(Minor(M, j, i))),
                     det)]]

\* np.linalg.inv raises LinAlgError("Singular matrix") on a singular block
Singular(M) == Det(M) = Zero

\* the matrix product A . B
MatMul(A, B) ==
    [i \in 1..Len(A) |-> [j \in 1..Len(B[1]) |->
        FSum([k \in 1..Len(B) |-> FMul(A[i][k], B[k][j])], Len(B))]]

Identity(n) == [i \in 1..n |-> [j \in 1..n |-> IF i = j THEN One ELSE Zero]]

(***************************************************************************)
(* ReferenceMap.eval_inverse                                               *)
(***************************************************************************)
\* hosts is an integer array: rank 1 (one number per point) or rank 2 (one
\* row of numbers per point); hosts.v holds its entries
HostWidth(m, hosts) == IF hosts.rank = 1 THEN m.dimension ELSE Len(hosts.v[1])

\* self._mesh.nodes.take(hosts-1, axis=0) for a rank 2 hosts array: nH x nB x nD
HostCoords(m, hosts) ==
    [h \in 1..Len(hosts.v) |-> [b \in 1..Len(hosts.v[h]) |->
        LET node == Take0(m.nodes, hosts.v[h][b] - 1)
        IN  [i \in 1..Len(node) |-> R(node[i])]]]

\* dim == 1: P = coords[:,1] - coords[:,0]; P_inv = 1./P; P_inv * (points.T - p0)
Inverse1D(coords, points) ==
    LET pT == Transpose(points)
        pre == [h \in 1..Len(coords) |->
                   LET p0 == coords[h][1]
                       P == FSub(coords[h][2][1], coords[h][1][1])
                       P_inv == FDiv(One, P)
                   IN  <<FMul(P_inv, FSub(pT[h][1], p0[1]))>>]
    IN  Array(Transpose(pre), <<1, Len(coords)>>, "fresh")

\* the edge vectors stacked as rows instead of columns
EdgeMatrix_Rows(c) ==
    [i \in 1..2 |-> [j \in 1..2 |-> FSub(c[i + 1][j], c[1][j])]]

\* dim == 2: P = dstack([p10, p20]); P_inv = inv(P); (P_inv * (points.T - p0)).sum(-1)
EdgeMatrix(c) ==
    [i \in 1..2 |-> [j \in 1..2 |-> FSub(c[j + 1][i], c[1][i])]]

Inverse2D(coords, points) ==
    LET pT == Transpose(points)
        P == [h \in 1..Len(coords) |-> EdgeMatrix(coords[h])]
    IN  IF \E h \in 1..Len(coords) : Singular(P[h])
        THEN Raise("LinAlgError")
        ELSE LET pre == [h \in 1..Len(coords) |->
                            LET P_inv == Inv(P[h])
                                p0 == coords[h][1]
                            IN  [i \in 1..2 |->
                                   FSum([j \in 1..2 |->
                                           FMul(P_inv[i][j], FSub(pT[h][j], p0[j]))], 2)]]
             IN  Array(Transpose(pre), <<2, Len(coords)>>, "fresh")

eval_inverse(m, points, hosts) ==
    LET dim == Len(points)
    IN  IF m.dimension \notin {1, 2} THEN Raise("ValueError")
        ELSE IF dim # m.dimension THEN Raise("AssertionError")
        ELSE IF \E h \in 1..Len(hosts.v) :
                  IF hosts.rank = 1 THEN ~InRange0(m.nodes, hosts.v[h] - 1)
                  ELSE \E b \in 1..Len(hosts.v[h]) : ~InRange0(m.nodes, hosts.v[h][b] - 1)
        THEN Raise("IndexError")
        \* coords[:,1] (and coords[:,2] when dim is 2) must exist along axis 1
        ELSE IF HostWidth(m, hosts) <= dim THEN Raise("IndexError")
        ELSE IF dim = 1 THEN Inverse1D(HostCoords(m, hosts), points)
        ELSE Inverse2D(HostCoords(m, hosts), points)

(***************************************************************************)
(* ReferenceMap.jacobian_inverse and ReferenceMap.jacobian_determinant     *)
(***************************************************************************)
\* jacs.shape[-2:]
TrailingShape(jacs) == SubSeq(jacs.shape, Len(jacs.shape) - 1, Len(jacs.shape))

\* jacs.shape[:-2], the leading (batch) axes
BatchShape(jacs) == SubSeq(jacs.shape, 1, Len(jacs.shape) - 2)

SquareShapes == {<<1, 1>>, <<2, 2>>, <<3, 3>>}

\* 1./J, elementwise
Reciprocal(J) == [i \in 1..Len(J) |-> [j \in 1..Len(J[i]) |-> FDiv(One, J[i][j])]]

\* np.sqrt(np.power(jacs[...,0], 2).sum(axis=2))
CurveElement(J) == Sqrt(FSum([i \in 1..2 |-> Power2(J[i][1])], 2))

\* the area element with a wrong index in its second term
SurfaceElement_Typo(J) ==
    LET tmp0 == Power2(FSub(FMul(J[2][1], J[3][2]), FMul(J[3][1], J[2][2])))
        tmp1 == Power2(FSub(FMul(J[3][1], J[1][2]), FMul(J[1][1], J[2][2])))
        tmp2 == Power2(FSub(FMul(J[1][1], J[2][2]), FMul(J[2][1], J[1][2])))
    IN  Sqrt(FAdd(FAdd(tmp0, tmp1), tmp2))

\* np.sqrt(tmp0 + tmp1 + tmp2)
SurfaceElement(J) ==
    LET tmp0 == Power2(FSub(FMul(J[2][1], J[3][2]), FMul(J[3][1], J[2][2])))
        tmp1 == Power2(FSub(FMul(J[3][1], J[1][2]), FMul(J[1][1], J[3][2])))
        tmp2 == Power2(FSub(FMul(J[1][1], J[2][2]), FMul(J[2][1], J[1][2])))
    IN  Sqrt(FAdd(FAdd(tmp0, tmp1), tmp2))

\* one numpy operation applied to one trailing block
BlockOp(op, J) ==
    IF op = "inv" THEN Inv(J)
    ELSE IF op = "reciprocal" THEN Reciprocal(J)
    ELSE IF op = "det" THEN Det(J)
    ELSE IF op = "curve" THEN CurveElement(J)
    ELSE SurfaceElement(J)

\* numpy applies the operation to every trailing block of a batch with one or
\* two leading axes
MapBlocks(op, val, batch) ==
    IF batch = 1 THEN [e \in 1..Len(val) |-> BlockOp(op, val[e])]
    ELSE [e \in 1..Len(val) |-> [p \in 1..Len(val[e]) |-> BlockOp(op, val[e][p])]]

AnySingular(val, batch) ==
    IF batch = 1 THEN \E e \in 1..Len(val) : Singular(val[e])
    ELSE \E e \in 1..Len(val) : \E p \in 1..Len(val[e]) : Singular(val[e][p])

InverseOf(jacs) ==
    LET shape == TrailingShape(jacs)
        batch == Len(BatchShape(jacs))
    IN  IF shape \in SquareShapes
        THEN IF AnySingular(jacs.val, batch) THEN Raise("LinAlgError")
             ELSE Array(MapBlocks("inv", jacs.val, batch), jacs.shape, "fresh")
        ELSE IF shape[2] = 1
        THEN Array(MapBlocks("reciprocal", jacs.val, batch), jacs.shape, "fresh")
        ELSE Raise("NotImplementedError")

jacobian_inverse(m, points, mask) ==
    LET jacs == eval(m, points, 1, mask)
    IN  IF jacs.kind = "raise" THEN jacs ELSE InverseOf(jacs)

\* a dispatch that takes every one-column Jacobian for a curve in 2-D
DeterminantOf_AnyCurve(jacs) ==
    LET shape == TrailingShape(jacs)
        batch == Len(BatchShape(jacs))
    IN  IF shape \in SquareShapes
        THEN Array(MapBlocks("det", jacs.val, batch), BatchShape(jacs), "fresh")
        ELSE IF shape[1] >= 2 /\ shape[2] = 1
        THEN Array(MapBlocks("curve", jacs.val, batch), BatchShape(jacs), "fresh")
        ELSE IF shape = <<3, 2>>
        THEN Array(MapBlocks("surface", jacs.val, batch), BatchShape(jacs), "fresh")
        ELSE Raise("NotImplementedError")

DeterminantOf(jacs) ==
    LET shape == TrailingShape(jacs)
        batch == Len(BatchShape(jacs))
    IN  IF shape \in SquareShapes
        THEN Array(MapBlocks("det", jacs.val, batch), BatchShape(jacs), "fresh")
        ELSE IF shape = <<2, 1>>
        THEN Array(MapBlocks("curve", jacs.val, batch), BatchShape(jacs), "fresh")
        ELSE IF shape = <<3, 2>>
        THEN Array(MapBlocks("surface", jacs.val, batch), BatchShape(jacs), "fresh")
        ELSE Raise("NotImplementedError")

jacobian_determinant(m, points, mask) ==
    LET jacs == eval(m, points, 1, mask)
    IN  IF jacs.kind = "raise" THEN jacs ELSE DeterminantOf(jacs)

(***************************************************************************)
(* Meshes and inputs.                                                      *)
(***************************************************************************)
\* all points with D coordinates drawn from C
Coordinates(D, C) == [1..D -> C]

\* the cells <<1,2>>, <<2,3>>, ... of an interval mesh with N nodes
ChainCells(N) == [i \in 1..(N - 1) |-> <<i, i + 1>>]

\* the d-dimensional faces of the simplex on the nodes 1..N, as cyclic windows
Faces(N, d) ==
    IF d = N - 1 THEN << [k \in 1..N |-> k] >>
    ELSE [i \in 1..N |-> [k \in 1..(d + 1) |-> ((i + k - 2) % N) + 1]]

ChainMeshes(N, C) ==
    {[dimension |-> 1, nodes |-> ns, topology |-> <<ChainCells(N)>>] :
        ns \in [1..N -> Coordinates(1, C)]}

\* one simplex of topological dimension D in D-space, with its faces
SimplexMeshes(D, C) ==
    {[dimension |-> D, nodes |-> ns, topology |-> [d \in 1..D |-> Faces(D + 1, d)]] :
        ns \in [1..(D + 1) -> Coordinates(D, C)]}

\* grid points of the reference simplex of dimension d, as numerators over Den
RECURSIVE SumTo(_, _)
SumTo(x, n) == IF n = 0 THEN 0 ELSE SumTo(x, n - 1) + x[n]

LocalPoints(d) == {x \in [1..d -> 0..Den] : SumTo(x, d) <= Den}

\* the vertices of the reference simplex
RefVertices(d) == {x \in LocalPoints(d) : \A i \in 1..d : x[i] \in {0, Den}}

\* the dim x nP array holding the points ps[1], ps[2], ...
PointArray(ps, d) == [i \in 1..d |-> [p \in 1..Len(ps) |-> Q(ps[p][i], Den)]]

SinglePoints(d) == {PointArray(<<x>>, d) : x \in LocalPoints(d)}

VertexPairs(d) == {PointArray(<<x, y>>, d) : x \in RefVertices(d), y \in RefVertices(d)}

NoPoints == <<>>

\* masks over an entity axis of length nE
IntMasks(nE) ==
    {[dtype |-> "int", v |-> v] :
        v \in {<<>>} \cup [1..1 -> 0..(nE - 1)] \cup [1..2 -> 0..(nE - 1)]}

BoolMasks(nE) == {[dtype |-> "bool", v |-> v] : v \in [1..nE -> BOOLEAN]}

FloatMask == [dtype |-> "float", v |-> <<R(0), R(1)>>]

Masks(nE) == {NoMask, FloatMask} \cup IntMasks(nE) \cup BoolMasks(nE)

TopDim(m) == Len(m.topology)

NoCall == [op |-> "none"]

NoResult == [kind |-> "none"]

(***************************************************************************)
(* Actions: one per method of ReferenceMap.                                *)
(***************************************************************************)
\* the caller holds no result
Idle == call = NoCall

Eval(points, deriv, mask) ==
    /\ Idle
    /\ call' = [op |-> "eval", points |-> points, deriv |-> deriv, mask |-> mask]
    /\ ret' = eval(mesh, points, deriv, mask)
    /\ UNCHANGED mesh

\* the caller feeds the global points eval returned for entity e back into
\* eval_inverse; xi and elem record where the points came from
EvalInverse(e, hosts) ==
    /\ call.op = "eval" /\ call.deriv = 0 /\ call.mask = NoMask
    /\ Size(call.points) > 0
    /\ ret.kind = "array"
    /\ e \in 1..Len(ret.val)
    /\ LET points == Transpose(ret.val[e])
       IN  /\ call' = [op |-> "eval_inverse", points |-> points, hosts |-> hosts,
                       xi |-> call.points, elem |-> e]
           /\ ret' = eval_inverse(mesh, points, hosts)
    /\ UNCHANGED mesh

JacobianInverse(points, mask) ==
    /\ Idle
    /\ call' = [op |-> "jacobian_inverse", points |-> points, mask |-> mask]
    /\ ret' = jacobian_inverse(mesh, points, mask)
    /\ UNCHANGED mesh

JacobianDeterminant(points, mask) ==
    /\ Idle
    /\ call' = [op |-> "jacobian_determinant", points |-> points, mask |-> mask]
    /\ ret' = jacobian_determinant(mesh, points, mask)
    /\ UNCHANGED mesh

\* t with the entry at the index path replaced by v
RECURSIVE WriteAt(_, _, _)
WriteAt(t, path, v) ==
    IF Len(path) = 0 THEN v
    ELSE [t EXCEPT ![Head(path)] = WriteAt(t[Head(path)], Tail(path), v)]

\* the caller stores c into entry [i, 0, ..., 0] of the array it was handed; a
\* view of mesh.nodes (nodes[:,None,:]) shares its memory with the mesh
CallerWrite(i, c) ==
    /\ ret.kind = "array"
    /\ i \in 1..Len(ret.val)
    /\ \A k \in 1..Len(ret.shape) : ret.shape[k] > 0
    /\ ret' = [ret EXCEPT !.val = WriteAt(ret.val, <<i>> \o [k \in 1..(Len(ret.shape) - 1) |-> 1],
                                          R(c))]
    /\ mesh' = IF ret.base = "nodes" THEN [mesh EXCEPT !.nodes[i][1] = c] ELSE mesh
    /\ UNCHANGED call

\* the caller drops the result it holds
Discard ==
    /\ call # NoCall
    /\ call' = NoCall
    /\ ret' = NoResult
    /\ UNCHANGED mesh

(***************************************************************************)
(* Specification for eval: interval meshes with 2 and 3 cells and          *)
(* triangles, all masks and derivative orders.                             *)
(***************************************************************************)
InitEval ==
    /\ mesh \in ChainMeshes(3, 0..MaxCoord) \cup ChainMeshes(4, 0..MaxCoord)
                \cup SimplexMeshes(2, 0..1)
    /\ call = NoCall
    /\ ret = NoResult

NextEval ==
    \/ /\ Idle
       /\ \E d \in 1..TopDim(mesh) :
            \E points \in SinglePoints(d) \cup VertexPairs(d), deriv \in 0..2,
               mask \in Masks(Len(get_entities(mesh, d))) :
                 Eval(points, deriv, mask)
    \/ /\ Idle
       /\ \E deriv \in 0..2, mask \in Masks(Len(mesh.nodes)) : Eval(NoPoints, deriv, mask)
    \/ Discard

SpecEval == InitEval /\ [][NextEval]_vars

(***************************************************************************)
(* Specification for eval_inverse: eval at local points of the cells, then *)
(* eval_inverse on the global points it returned.                          *)
(***************************************************************************)
\* a tetrahedron: eval_inverse rejects 3-D meshes
UnitTet ==
    [dimension |-> 3,
     nodes |-> <<<<0, 0, 0>>, <<1, 0, 0>>, <<0, 1, 0>>, <<0, 0, 1>>>>,
     topology |-> [d \in 1..3 |-> Faces(4, d)]]

\* hosts as the caller can pass them for nP points in element h (1-based
\* position in the cell list): the element's vertex tuple, or its 0-based index
HostVertices(m, h, nP) == [rank |-> 2, v |-> [p \in 1..nP |-> get_entities(m, TopDim(m))[h]]]

HostIndex(h, nP) == [rank |-> 1, v |-> [p \in 1..nP |-> h - 1]]

InitInv ==
    /\ mesh \in ChainMeshes(3, 0..MaxCoord) \cup SimplexMeshes(2, 0..MaxCoord) \cup {UnitTet}
    /\ call = NoCall
    /\ ret = NoResult

NextInv ==
    \/ /\ Idle
       /\ \E points \in SinglePoints(TopDim(mesh)) \cup VertexPairs(TopDim(mesh)) :
            Eval(points, 0, NoMask)
    \/ /\ call.op = "eval"
       /\ \E e \in 1..Len(ret.val), h \in 1..Len(get_entities(mesh, TopDim(mesh))) :
            \/ EvalInverse(e, HostVertices(mesh, h, Len(call.points[1])))
            \/ EvalInverse(e, HostIndex(h, Len(call.points[1])))
    \/ Discard

SpecInv == InitInv /\ [][NextInv]_vars

(***************************************************************************)
(* Specification for the Jacobian methods: meshes of embedding dimension   *)
(* 1 to 4, entities of every topological dimension.                        *)
(***************************************************************************)
\* the 4-simplex with first node z*(1,1,1,1) and edges s*e_k
Simplex4(z, s) ==
    [dimension |-> 4,
     nodes |-> [n \in 1..5 |-> [i \in 1..4 |-> IF n = i + 1 THEN z + s ELSE z]],
     topology |-> [d \in 1..4 |-> Faces(5, d)]]

\* one point of the reference simplex and, on interval meshes, two points
JacPoints(m, d) ==
    {PointArray(<<[i \in 1..d |-> 0]>>, d)} \cup
    (IF m.dimension = 1 THEN {PointArray(<<<<0>>, <<Den>>>>, 1)} ELSE {})

\* no mask, the last and the first entity, and for edges a mask of floats
JacMasks(d, nE) ==
    {NoMask, [dtype |-> "int", v |-> <<nE - 1, 0>>]} \cup (IF d = 1 THEN {FloatMask} ELSE {})

InitJac ==
    /\ mesh \in ChainMeshes(3, 0..MaxCoord) \cup SimplexMeshes(2, 0..MaxCoord)
                \cup SimplexMeshes(3, 0..1) \cup {Simplex4(z, s) : z \in 0..1, s \in 1..2}
    /\ call = NoCall
    /\ ret = NoResult

NextJac ==
    \/ /\ Idle
       /\ \E d \in 1..TopDim(mesh) :
            \E points \in JacPoints(mesh, d), mask \in JacMasks(d, Len(get_entities(mesh, d))) :
               JacobianInverse(points, mask)
    \/ /\ Idle
       /\ JacobianInverse(NoPoints, NoMask)
    \/ /\ Idle
       /\ \E d \in 1..TopDim(mesh) :
            \E points \in JacPoints(mesh, d), mask \in JacMasks(d, Len(get_entities(mesh, d))) :
               JacobianDeterminant(points, mask)
    \/ /\ Idle
       /\ JacobianDeterminant(NoPoints, NoMask)
    \/ Discard

SpecJac == InitJac /\ [][NextJac]_vars

(***************************************************************************)
(* Specification for the ownership of results: every method, and a caller  *)
(* that writes into the array it was handed.                               *)
(***************************************************************************)
InitAlias ==
    /\ mesh \in ChainMeshes(3, 0..MaxCoord)
    /\ call = NoCall
    /\ ret = NoResult

NextAlias ==
    \/ /\ Idle
       /\ \E points \in JacPoints(mesh, 1) \cup {NoPoints}, deriv \in 0..2 :
            Eval(points, deriv, NoMask)
    \/ /\ call.op = "eval"
       /\ \E e \in 1..Len(ret.val) :
            EvalInverse(e, HostVertices(mesh, e, Len(call.points[1])))
    \/ /\ Idle
       /\ \E points \in JacPoints(mesh, 1) \cup {NoPoints} : JacobianInverse(points, NoMask)
    \/ /\ Idle
       /\ \E points \in JacPoints(mesh, 1) \cup {NoPoints} : JacobianDeterminant(points, NoMask)
    \/ \E i \in 1..Len(mesh.nodes), c \in 0..MaxCoord : CallerWrite(i, c)
    \/ Discard

SpecAlias == InitAlias /\ [][NextAlias]_vars

(***************************************************************************)
(* Properties of eval (SpecEval).                                          *)
(***************************************************************************)
\* the call held is eval on a non-empty point set
EvalCalled == call.op = "eval" /\ Size(call.points) > 0

\* the entity list the held call addresses
CalledEntities == get_entities(mesh, Len(call.points))

\* the mesh and point of the worked example: nodes 0, 1, 2, cells [1,2], [2,3], point 0.5
ExampleMesh == mesh.nodes = <<<<0>>, <<1>>, <<2>>>> /\ CalledEntities = <<<<1, 2>>, <<2, 3>>>>

\* C2: eval(points, deriv=0) on a non-empty point set returns, for every entity e
\* of the addressed dimension, in the order of the entity list, and every point p,
\* the sum over the entity's vertices b of nodes[vertex(e,b) - 1] * basis_b(p); on
\* nodes 0,1,2 with cells [1,2],[2,3] and the point 0.5 that is 0.5 and 1.5.
C2_LinearInterpolation ==
    (EvalCalled /\ call.deriv = 0 /\ call.mask.dtype = "none") =>
        LET basis == eval_basis(call.points, 0)
            nB == Len(basis)
        IN  /\ ret.kind = "array"
            /\ Len(ret.val) = Len(CalledEntities)
            /\ \A e \in 1..Len(CalledEntities), p \in 1..Len(call.points[1]) :
                 ret.val[e][p] =
                    [i \in 1..mesh.dimension |->
                        FSum([b \in 1..nB |->
                                FMul(R(mesh.nodes[CalledEntities[e][b]][i]), basis[b][p])],
                             nB)]
            /\ (ExampleMesh /\ call.points = <<<<Q(1, 2)>>>>) =>
                 ret.val = << <<<<Q(1, 2)>>>>, <<<<Q(3, 2)>>>> >>

C2_Witness ==
    /\ EvalCalled /\ call.deriv = 0 /\ call.mask.dtype = "none"
    /\ ExampleMesh
    /\ call.points = <<<<Q(1, 2)>>>>
    /\ ret.kind = "array"
    /\ ret.val = << <<<<Q(1, 2)>>>>, <<<<Q(3, 2)>>>> >>

\* the boolean mask over nE entities that is true exactly at the 0-based indices idx
BoolMaskOf(idx, nE) ==
    [dtype |-> "bool", v |-> [i \in 1..nE |-> \E k \in 1..Len(idx) : idx[k] = i - 1]]

Increasing(idx) == \A k \in 1..(Len(idx) - 1) : idx[k] < idx[k + 1]

\* C6: on a mesh with at least 3 entities, for a non-empty point set and any
\* derivative order 0, 1, 2, eval with an integer mask listing entity indices in
\* increasing order returns the same tensor as eval with the boolean mask that is
\* true exactly at those indices.
C6_MaskEquivalence ==
    (/\ EvalCalled
     /\ call.mask.dtype = "int"
     /\ Increasing(call.mask.v)
     /\ Len(CalledEntities) >= 3) =>
        ret = eval(mesh, call.points, call.deriv,
                   BoolMaskOf(call.mask.v, Len(CalledEntities)))

C6_Witness ==
    /\ EvalCalled
    /\ call.mask = [dtype |-> "int", v |-> <<0, 2>>]
    /\ call.deriv = 1
    /\ Len(CalledEntities) = 3
    /\ ret.kind = "array"
    /\ ret.shape[1] = 2
    /\ ret.val[1] # ret.val[2]

\* the position of the k-th TRUE of a boolean sequence
KthTrue(v, k) ==
    CHOOSE i \in 1..Len(v) : v[i] /\ Cardinality({j \in 1..i : v[j]}) = k

\* the held result is what the unmasked call returns, restricted along the entity
\* axis as the mask says
MaskRestricts ==
    LET full == eval(mesh, call.points, call.deriv, NoMask)
        v == call.mask.v
    IN  IF call.mask.dtype = "int"
        THEN /\ ret.kind = "array"
             /\ ret.val = [k \in 1..Len(v) |-> full.val[v[k] + 1]]
        ELSE IF call.mask.dtype = "bool"
        THEN /\ ret.kind = "array"
             /\ Len(ret.val) = Cardinality({i \in 1..Len(v) : v[i]})
             /\ \A k \in 1..Len(ret.val) : ret.val[k] = full.val[KthTrue(v, k)]
        ELSE ret = Raise("TypeError")

Orientation(m, cell) ==
    LET v(k) == m.nodes[cell[k]]
        a(i) == v(2)[i] - v(1)[i]
        b(i) == v(3)[i] - v(1)[i]
        c(i) == v(4)[i] - v(1)[i]
    IN  IF Len(cell) = 2 THEN v(2)[1] - v(1)[1]
        ELSE IF Len(cell) = 3
        THEN v(1)[1] * (v(2)[2] - v(3)[2]) + v(2)[1] * (v(3)[2] - v(1)[2])
               + v(3)[1] * (v(1)[2] - v(2)[2])
        ELSE a(1) * (b(2) * c(3) - b(3) * c(2)) + a(2) * (b(3) * c(1) - b(1) * c(3))
               + a(3) * (b(1) * c(2) - b(2) * c(1))

Degenerate(m, cell) == Orientation(m, cell) = 0

(***************************************************************************)
(* Properties of eval_inverse (SpecInv).                                   *)
(***************************************************************************)
\* the held call is eval_inverse on the points eval returned for element
\* call.elem at the local points call.xi
InverseCalled == call.op = "eval_inverse" /\ mesh.dimension \in {1, 2}

\* the element whose points were fed back
FedElement == get_entities(mesh, TopDim(mesh))[call.elem]

HostIsFedElementVertices ==
    call.hosts.rank = 2 /\ call.hosts = HostVertices(mesh, call.elem, Len(call.xi[1]))

HostIsFedElementIndex ==
    call.hosts.rank = 1 /\ call.hosts = HostIndex(call.elem, Len(call.xi[1]))

C7_DegenerateHostRaises ==
    (/\ InverseCalled
     /\ call.hosts.rank = 2
     /\ \E h \in 1..Len(call.hosts.v) : Degenerate(mesh, call.hosts.v[h])) =>
        ret = Raise("LinAlgError")

(***************************************************************************)
(* Properties of jacobian_inverse and jacobian_determinant (SpecJac).      *)
(***************************************************************************)
\* the Jacobian array of the held call
CalledJacs == eval(mesh, call.points, 1, call.mask)

DeterminantCalled == call.op = "jacobian_determinant" /\ CalledJacs.kind = "array"

InverseJacCalled == call.op = "jacobian_inverse" /\ CalledJacs.kind = "array"

SupportedShapes == SquareShapes \cup {<<2, 1>>, <<3, 2>>}

\* the vertex tuples of the entities the held call selects, in result order
SelectedEntities ==
    IF call.mask.dtype = "int"
    THEN [k \in 1..Len(call.mask.v) |-> CalledEntities[call.mask.v[k] + 1]]
    ELSE CalledEntities

\* v * v for a returned volume factor (a fraction, or the root <<n, d, 2>>)
Square(v) == IF Len(v) = 3 THEN <<v[1], v[2]>> ELSE FMul(v, v)

NonNegative(v) == v[1] >= 0 /\ v[2] > 0

\* det(J^T J)
GramDeterminant(J) == Det(MatMul(Transpose(J), J))

\* the squared length of the cross product of the two columns of a 3 x 2 block
CrossSquared(J) ==
    LET a(i) == J[i][1]
        b(i) == J[i][2]
        x == FSub(FMul(a(2), b(3)), FMul(a(3), b(2)))
        y == FSub(FMul(a(3), b(1)), FMul(a(1), b(3)))
        z == FSub(FMul(a(1), b(2)), FMul(a(2), b(1)))
    IN  FAdd(FAdd(FMul(x, x), FMul(y, y)), FMul(z, z))

\* C4: for every Jacobian J of trailing shape 2x1 or 3x2 the value v returned by
\* jacobian_determinant for that (entity, point) is the square root of the Gram
\* determinant: v >= 0 and v*v = det(J^T J), which is J[0,0]^2 + J[1,0]^2 for
\* 2x1 and the squared length of the cross product of the columns for 3x2.
C4_GramDeterminant ==
    (call.op = "jacobian_determinant") =>
      LET jacs == CalledJacs
      IN  (jacs.kind = "array" /\ TrailingShape(jacs) \in {<<2, 1>>, <<3, 2>>}) =>
        /\ ret.kind = "array"
        /\ \A e \in 1..Len(jacs.val), p \in 1..Len(call.points[1]) :
             LET J == jacs.val[e][p]
                 v == ret.val[e][p]
             IN  /\ NonNegative(v)
                 /\ Square(v) = GramDeterminant(J)
                 /\ Len(J) = 2 => Square(v) = FAdd(FMul(J[1][1], J[1][1]),
                                                    FMul(J[2][1], J[2][1]))
                 /\ Len(J) = 3 => Square(v) = CrossSquared(J)

C4_Witness ==
    /\ DeterminantCalled
    /\ TrailingShape(CalledJacs) = <<3, 2>>
    /\ ret.kind = "array"
    /\ ret.shape = <<4, 1>>
    /\ ret.val[1][1] = <<3, 1, 2>>
    /\ ret.val[2][1] = <<1, 1>>

\* C5: for every non-degenerate, positively oriented element jacobian_determinant
\* is strictly positive at every query point when the Jacobian is square, and for
\* the shapes 2x1 and 3x2 the returned arc-length or area element is
\* non-negative for every element.
C5_DeterminantPositivity ==
    (call.op = "jacobian_determinant" /\ Size(call.points) > 0) =>
      LET jacs == CalledJacs
      IN  (jacs.kind = "array" /\ TrailingShape(jacs) \in SupportedShapes) =>
        /\ ret.kind = "array"
        /\ Len(ret.val) = Len(SelectedEntities)
        /\ \A e \in 1..Len(ret.val), p \in 1..Len(call.points[1]) :
             IF TrailingShape(jacs) \in SquareShapes
             THEN Orientation(mesh, SelectedEntities[e]) > 0 => FLess(Zero, ret.val[e][p])
             ELSE NonNegative(ret.val[e][p])

C5_Witness ==
    /\ DeterminantCalled
    /\ TrailingShape(CalledJacs) = <<3, 3>>
    /\ Orientation(mesh, SelectedEntities[1]) > 0
    /\ ret.kind = "array"
    /\ ret.val[1][1] = One

\* C8: jacobian_inverse never returns an incorrect numeric result: for a square
\* Jacobian (1x1, 2x2, 3x3) it returns the inverse K with K*J = identity for
\* every (entity, point), the elementwise reciprocal being used only for 1x1;
\* for every other trailing shape, D x 1 with D > 1 and 3x2 included, it fails
\* with a not-implemented error and returns nothing.
C8_InverseOrNotImplemented ==
    InverseJacCalled =>
        LET jacs == CalledJacs
            shape == TrailingShape(jacs)
            batch == Len(BatchShape(jacs))
            IsInverse(e, p) ==
                LET J == IF batch = 1 THEN jacs.val[e] ELSE jacs.val[e][p]
                    K == IF batch = 1 THEN ret.val[e] ELSE ret.val[e][p]
                IN  MatMul(K, J) = Identity(shape[1])
        IN  IF shape \in SquareShapes
            THEN ret.kind = "array" =>
                   \A e \in 1..Len(ret.val) :
                      \A p \in 1..(IF batch = 1 THEN 1 ELSE Len(ret.val[e])) : IsInverse(e, p)
            ELSE ret = Raise("NotImplementedError")

\* the number of query points of the held call
CalledPoints == IF Size(call.points) = 0 THEN 0 ELSE Len(call.points[1])

\* jacobian_determinant raises the unsupported-shape error exactly when the
\* trailing shape is not one of the five supported ones
ShapeDispatch(jacs) ==
    (ret = Raise("NotImplementedError")) <=> (TrailingShape(jacs) \notin SupportedShapes)

C3_ResultsOwnedByCaller ==
    /\ [](ret.kind = "array" => ret.base = "fresh")
    /\ [][mesh'.nodes = mesh.nodes]_vars

=============================================================================
